---- MODULE Spec2Model ----
(***************************************************************************)
(* Collision geometry (Utils: checkForCollision, createAdjustedCollisionBox,*)
(* drawCollisionBoxes, boxCompare) and the Cloud scroll-and-cull lifecycle *)
(* (Cloud.update, Cloud.isVisible) of the runner game.                     *)
(*                                                                         *)
(* Cloud.js reaches Utils.js through a bare import, which binds no name:   *)
(* its reads of getRandomNum and IS_HIDPI throw a ReferenceError, and a    *)
(* method that throws leaves the assignments it made before the throw.     *)
(* new Cloud(...) therefore hands out no object; the methods are exercised *)
(* on a receiver that carries the fields a Cloud has and was made without  *)
(* the constructor (Object.create(Cloud.prototype) and field writes).      *)
(*                                                                         *)
(* A CollisionBox is the record [x, y, width, height].  The value          *)
(* `undefined` that checkForCollision returns when it falls off its end is *)
(* the empty tuple << >>; a returned pair is << adjTrexBox, adjObstacleBox >>.*)
(* A speed is a rational number num / SpeedDen, held as its numerator.     *)
(***************************************************************************)
EXTENDS Integers, Sequences, FiniteSets

VARIABLES
    boxA, boxB,        \* the two boxes handed to boxCompare
    crashedAB,         \* << boxCompare(boxA, boxB) >> once called, << >> before
    crashedBA,         \* << boxCompare(boxB, boxA) >> once called, << >> before
    obstacle,          \* [xPos, yPos, size, typeConfig, collisionBoxes]
    tRex,              \* [xPos, yPos, ducking, config]
    tables,            \* Trex.collisionBoxes.DUCKING / .RUNNING and
                       \* Runner.spriteDefinition.TREX.COLLISION_BOXES (ALT)
    altGameMode,       \* what Runner.isAltGameModeEnabled() answers
    calledWith,        \* the opt_canvasCtx flags checkForCollision was called with
    returned,          \* returned[c]: value of the last call with opt_canvasCtx = c
    lastCall,          \* everything observable about the last call
    cloud,             \* the receiver of the Cloud methods:
                       \* [xPos, yPos, remove, gap, containerWidth]
    speed,             \* numerator of the last speed handed to Cloud.update
    cloudCanvas,       \* [saves, image]: save() calls not yet restored and
                       \* the destination of the last drawImage, << >> if none
    thrown,            \* what the last constructor or method call threw
    updates,           \* number of Cloud.update calls made on the receiver
    draws              \* number of direct Cloud.draw calls made on it

vars == << boxA, boxB, crashedAB, crashedBA, obstacle, tRex, tables,
           altGameMode, calledWith, returned, lastCall, cloud, speed,
           cloudCanvas, thrown, updates, draws >>

boxVars == << boxA, boxB, crashedAB, crashedBA >>
collisionVars == << obstacle, tRex, tables, altGameMode, calledWith,
                    returned, lastCall >>
cloudVars == << cloud, speed, cloudCanvas, thrown, updates, draws >>

-----------------------------------------------------------------------------
(* Bounds of the model *)

MaxCoord == 1
MaxDim == 2
MaxContainerWidth == 3
SkySpan == 1
GapSpan == 1
SpeedDen == 2
MaxSpeedNum == 3
MaxY == 1
MaxObstacleX == 3
MaxSize == 2
MaxBoxes == 2
MaxUpdates == 50
MaxDraws == 1

(* Cloud.config *)
CloudWIDTH == 46
CloudHEIGHT == 14
MAX_CLOUD_GAP == 400
MAX_SKY_LEVEL == 30
MIN_CLOUD_GAP == 100
MIN_SKY_LEVEL == 71

Min(a, b) == IF a < b THEN a ELSE b

IdleBox == [x |-> 0, y |-> 0, width |-> 0, height |-> 0]

-----------------------------------------------------------------------------
(* boxCompare *)

boxCompareTouching(tRexBox, obstacleBox) ==
    LET crashed == FALSE
    IN  IF /\ tRexBox.x <= obstacleBox.x + obstacleBox.width
           /\ tRexBox.x + tRexBox.width >= obstacleBox.x
           /\ tRexBox.y <= obstacleBox.y + obstacleBox.height
           /\ tRexBox.height + tRexBox.y >= obstacleBox.y
        THEN TRUE
        ELSE crashed

boxCompareOneSided(tRexBox, obstacleBox) ==
    LET crashed == FALSE
    IN  IF /\ tRexBox.x < obstacleBox.x + obstacleBox.width
           /\ tRexBox.y < obstacleBox.y + obstacleBox.height
           /\ tRexBox.height + tRexBox.y > obstacleBox.y
        THEN TRUE
        ELSE crashed

boxCompare(tRexBox, obstacleBox) ==
    LET crashed == FALSE
    IN  IF /\ tRexBox.x < obstacleBox.x + obstacleBox.width
           /\ tRexBox.x + tRexBox.width > obstacleBox.x
           /\ tRexBox.y < obstacleBox.y + obstacleBox.height
           /\ tRexBox.height + tRexBox.y > obstacleBox.y
        THEN TRUE
        ELSE crashed

(* Boxes handed to boxCompare: every sign of x and width, plus the boxes of
   the two documented scenarios. *)
ScenarioBoxes ==
    { [x |-> 100, y |-> 0, width |-> 20, height |-> 20],
      [x |-> 200, y |-> 0, width |-> 20, height |-> 20],
      [x |-> 0,   y |-> 0, width |-> 20, height |-> 20] }

BoxSet ==
    [ x : (0 - MaxCoord) .. MaxCoord, y : 0 .. MaxCoord,
      width : -1 .. MaxDim, height : 0 .. MaxDim ] \cup ScenarioBoxes

-----------------------------------------------------------------------------
(* checkForCollision *)

tRexBoxInsetOnce(t) ==
    [ x |-> t.xPos + 1, y |-> t.yPos + 1,
      width |-> t.config.WIDTH - 1, height |-> t.config.HEIGHT - 1 ]

tRexBox(t) ==
    [ x |-> t.xPos + 1, y |-> t.yPos + 1,
      width |-> t.config.WIDTH - 2, height |-> t.config.HEIGHT - 2 ]

obstacleBoxIgnoringSize(o) ==
    [ x |-> o.xPos + 1, y |-> o.yPos + 1,
      width |-> o.typeConfig.width - 2,
      height |-> o.typeConfig.height - 2 ]

obstacleBox(o) ==
    [ x |-> o.xPos + 1, y |-> o.yPos + 1,
      width |-> o.typeConfig.width * o.size - 2,
      height |-> o.typeConfig.height - 2 ]

createAdjustedCollisionBoxXOnly(box, adjustment) ==
    [ x |-> box.x + adjustment.x, y |-> box.y,
      width |-> box.width, height |-> box.height ]

createAdjustedCollisionBox(box, adjustment) ==
    [ x |-> box.x + adjustment.x, y |-> box.y + adjustment.y,
      width |-> box.width, height |-> box.height ]

\* strokeRect of the two boxes, appended to what the canvas holds
drawCollisionBoxes(canvasCtx, tBox, oBox) == Append(canvasCtx, << tBox, oBox >>)

\* Simple outer bounds check.
outerBoundsCheckTouching(tBox, oBox) == boxCompareTouching(tBox, oBox)

outerBoundsCheck(tBox, oBox) == boxCompare(tBox, oBox)

\* The player sub-boxes the detailed check walks.
tRexCollisionBoxesByDucking(t, alt, tbl) ==
    IF t.ducking THEN tbl.DUCKING ELSE tbl.RUNNING

tRexCollisionBoxes(t, alt, tbl) ==
    IF alt
    THEN tbl.ALT
    ELSE IF t.ducking THEN tbl.DUCKING ELSE tbl.RUNNING

\* What a call leaves behind: the value returned, the coarse boxes built, the
\* pairs handed to the inner boxCompare in order, and the strokes drawn.
CallRecord(ret, tBox, oBox, compared, strokes) ==
    [ ret |-> ret, tRexBox |-> tBox, obstacleBox |-> oBox,
      compared |-> compared, strokes |-> strokes ]

NotCalled == CallRecord(<< >>, IdleBox, IdleBox, << >>, << >>)

\* Detailed axis aligned box check: the nested loops from (t, i) on, both
\* indices counted from 1.
RECURSIVE detailedCheck(_, _, _, _, _, _, _, _, _)
detailedCheck(t, i, tBoxes, oBoxes, tBox, oBox, ctx, compared, strokes) ==
    IF t > Len(tBoxes)
    THEN CallRecord(<< >>, tBox, oBox, compared, strokes)
    ELSE IF i > Len(oBoxes)
    THEN detailedCheck(t + 1, 1, tBoxes, oBoxes, tBox, oBox, ctx,
                       compared, strokes)
    ELSE LET adjTrexBox == createAdjustedCollisionBox(tBoxes[t], tBox)
             adjObstacleBox == createAdjustedCollisionBox(oBoxes[i], oBox)
             crashed == boxCompare(adjTrexBox, adjObstacleBox)
             compared2 == Append(compared, << adjTrexBox, adjObstacleBox >>)
             strokes2 == IF ctx
                         THEN drawCollisionBoxes(strokes, adjTrexBox,
                                                 adjObstacleBox)
                         ELSE strokes
         IN  IF crashed
             THEN CallRecord(<< adjTrexBox, adjObstacleBox >>, tBox, oBox,
                             compared2, strokes2)
             ELSE detailedCheck(t, i + 1, tBoxes, oBoxes, tBox, oBox, ctx,
                                compared2, strokes2)

checkForCollisionDebugReturns(o, t, ctx, alt, tbl) ==
    LET tBox == tRexBox(t)
        oBox == obstacleBox(o)
    IN  IF ctx
        THEN CallRecord(<< >>, tBox, oBox, << >>,
                        drawCollisionBoxes(<< >>, tBox, oBox))
        ELSE IF outerBoundsCheck(tBox, oBox)
        THEN detailedCheck(1, 1, tRexCollisionBoxes(t, alt, tbl),
                           o.collisionBoxes, tBox, oBox, ctx, << >>, << >>)
        ELSE CallRecord(<< >>, tBox, oBox, << >>, << >>)

\* checkForCollision(obstacle, tRex, opt_canvasCtx); ctx tells whether
\* opt_canvasCtx is supplied, alt is Runner.isAltGameModeEnabled(), tbl the
\* shared sub-box tables.  The local obstacleBoxXPos is computed and never
\* read, so it has no part in the result.
checkForCollision(o, t, ctx, alt, tbl) ==
    LET tBox == tRexBox(t)
        oBox == obstacleBox(o)
        outer == IF ctx
                 THEN drawCollisionBoxes(<< >>, tBox, oBox)
                 ELSE << >>
    IN  IF outerBoundsCheck(tBox, oBox)
        THEN detailedCheck(1, 1, tRexCollisionBoxes(t, alt, tbl),
                           o.collisionBoxes, tBox, oBox, ctx, << >>, outer)
        ELSE CallRecord(<< >>, tBox, oBox, << >>, outer)

\* Sub-boxes (offsets relative to the parent's coarse box) the tables and the
\* obstacles are built from: one inside every coarse box, one that reaches
\* past the right of a narrow coarse box, one that reaches past every one.
SubBoxPool ==
    { [x |-> 0, y |-> 0, width |-> 1, height |-> 1],
      [x |-> 1, y |-> 0, width |-> 1, height |-> 2],
      [x |-> 2, y |-> 1, width |-> 2, height |-> 1] }

RECURSIVE ListsOfLen(_)
ListsOfLen(n) ==
    IF n = 0
    THEN { << >> }
    ELSE { Append(l, b) : l \in ListsOfLen(n - 1), b \in SubBoxPool }

ListsUpTo(n) == UNION { ListsOfLen(k) : k \in 0 .. n }

\* Three pairwise different tables.
TableSet ==
    UNION { { [ DUCKING |-> << p >>, RUNNING |-> << q, p >>,
                ALT |-> << q >> ] : q \in SubBoxPool \ {p} } :
            p \in SubBoxPool }

-----------------------------------------------------------------------------
(* Cloud *)

\* The names bound in the module scope of Cloud.js: its named imports and
\* the class it declares.  import './Utils.js' binds none of the exports of
\* Utils.js.
ModuleScope ==
    { "Runner", "GeneratedSoundFx", "GameOverPanel", "Obstacles", "Trex",
      "DistanceMeter", "BackgroundEl", "NightMode", "HorizonLine", "Horizon",
      "Cloud" }

\* Reading an identifier that is not bound throws a ReferenceError.
Resolves(name) == name \in ModuleScope

\* A canvas nothing has been drawn on.
BlankCanvas == [ saves |-> 0, image |-> << >> ]

\* What a constructor or method call leaves behind: the object, the canvas,
\* and the exception thrown ("none" when the call returned).
Outcome(this, canvas, exc) ==
    [ this |-> this, canvas |-> canvas, thrown |-> exc ]

\* Math.ceil(num / SpeedDen)
MathCeil(num) == 0 - ((0 - num) \div SpeedDen)

isVisible(c) == c.xPos + CloudWIDTH > 0

\* Cloud.draw: save(), then the read of IS_HIDPI, then drawImage at
\* (xPos, yPos) and restore().
draw(c, canvas) ==
    LET saved == [canvas EXCEPT !.saves = @ + 1]
    IN  IF Resolves("IS_HIDPI")
        THEN Outcome(c, [ saves |-> saved.saves - 1,
                          image |-> << c.xPos, c.yPos >> ], "none")
        ELSE Outcome(c, saved, "ReferenceError")

\* Cloud.init: yPos is what getRandomNum answers.
init(c, canvas, yPos) ==
    IF Resolves("getRandomNum")
    THEN draw([c EXCEPT !.yPos = yPos], canvas)
    ELSE Outcome(c, canvas, "ReferenceError")

\* new Cloud(canvas, spritePos, containerWidth): gap and yPos are what
\* getRandomNum answers; a field not yet assigned is "undefined".
CloudConstructed(containerWidth, gap, yPos, canvas) ==
    LET fields == [ xPos |-> containerWidth, yPos |-> 0, remove |-> FALSE,
                    gap |-> "undefined", containerWidth |-> containerWidth ]
    IN  IF Resolves("getRandomNum")
        THEN init([fields EXCEPT !.gap = gap], canvas, yPos)
        ELSE Outcome(fields, canvas, "ReferenceError")

\* Cloud.update(num / SpeedDen)
CloudAfterUpdate(c, canvas, num) ==
    IF ~c.remove
    THEN LET moved == [c EXCEPT !.xPos = c.xPos - MathCeil(num)]
             drawn == draw(moved, canvas)
         IN  IF drawn.thrown # "none"
             THEN drawn
             ELSE IF ~isVisible(moved)
             THEN Outcome([moved EXCEPT !.remove = TRUE], drawn.canvas, "none")
             ELSE drawn
    ELSE Outcome(c, canvas, "none")

-----------------------------------------------------------------------------
(* Idle values of the parts a specification does not exercise *)

BoxIdle ==
    /\ boxA = IdleBox /\ boxB = IdleBox
    /\ crashedAB = << >> /\ crashedBA = << >>

\* An object with the fields of a Cloud, made without the constructor.
Receiver(xPos, yPos, gap) ==
    [ xPos |-> xPos, yPos |-> yPos, remove |-> FALSE, gap |-> gap,
      containerWidth |-> xPos ]

CloudIdle ==
    /\ cloud = Receiver(0, MAX_SKY_LEVEL, MIN_CLOUD_GAP)
    /\ speed = 0
    /\ cloudCanvas = BlankCanvas
    /\ thrown = "none"
    /\ updates = 0
    /\ draws = 0

CollisionIdle ==
    /\ obstacle = [xPos |-> 0, yPos |-> 0, size |-> 1,
                   typeConfig |-> [width |-> 2, height |-> 2],
                   collisionBoxes |-> << >>]
    /\ tRex = [xPos |-> 0, yPos |-> 0, ducking |-> FALSE,
               config |-> [WIDTH |-> 2, HEIGHT |-> 2]]
    /\ tables = [DUCKING |-> << >>, RUNNING |-> << >>, ALT |-> << >>]
    /\ altGameMode = FALSE
    /\ calledWith = {}
    /\ returned = [c \in BOOLEAN |-> << >>]
    /\ lastCall = NotCalled

-----------------------------------------------------------------------------
(* boxCompare on arbitrary pairs *)

InitBox ==
    /\ boxA \in BoxSet
    /\ boxB \in BoxSet
    /\ crashedAB = << >>
    /\ crashedBA = << >>
    /\ CollisionIdle
    /\ CloudIdle

CompareAB ==
    /\ crashedAB = << >>
    /\ crashedAB' = << boxCompare(boxA, boxB) >>
    /\ UNCHANGED << boxA, boxB, crashedBA, collisionVars, cloudVars >>

CompareBA ==
    /\ crashedBA = << >>
    /\ crashedBA' = << boxCompare(boxB, boxA) >>
    /\ UNCHANGED << boxA, boxB, crashedAB, collisionVars, cloudVars >>

NextBox == CompareAB \/ CompareBA

SpecBox == InitBox /\ [][NextBox]_vars

-----------------------------------------------------------------------------
(* checkForCollision on an obstacle and a player *)

InitCollision ==
    /\ obstacle \in [ xPos : 0 .. MaxObstacleX, yPos : 0 .. MaxY,
                      size : 1 .. MaxSize,
                      typeConfig : { [width |-> 3, height |-> 4] },
                      collisionBoxes : ListsUpTo(MaxBoxes) ]
    /\ tRex \in [ xPos : 0 .. 1, yPos : 0 .. MaxY, ducking : BOOLEAN,
                  config : { [WIDTH |-> 4, HEIGHT |-> 4] } ]
    /\ tables \in TableSet
    /\ altGameMode \in BOOLEAN
    /\ calledWith = {}
    /\ returned = [c \in BOOLEAN |-> << >>]
    /\ lastCall = NotCalled
    /\ BoxIdle
    /\ CloudIdle

\* checkForCollision(obstacle, tRex) when ctx is FALSE,
\* checkForCollision(obstacle, tRex, canvasCtx) when it is TRUE
CheckForCollision(ctx) ==
    /\ lastCall' = checkForCollision(obstacle, tRex, ctx, altGameMode, tables)
    /\ returned' = [returned EXCEPT ![ctx] = lastCall'.ret]
    /\ calledWith' = calledWith \cup {ctx}
    /\ UNCHANGED << obstacle, tRex, tables, altGameMode, boxVars, cloudVars >>

NextCollision == \E ctx \in BOOLEAN : CheckForCollision(ctx)

Spec == InitCollision /\ [][NextCollision]_vars

-----------------------------------------------------------------------------
(* Cloud lifecycle *)

GapRange == MIN_CLOUD_GAP .. Min(MIN_CLOUD_GAP + GapSpan, MAX_CLOUD_GAP)

SkyRange == MAX_SKY_LEVEL .. Min(MAX_SKY_LEVEL + SkySpan, MIN_SKY_LEVEL)

\* No Cloud has been handed out by the constructor.  The receiver stands at
\* the right edge of its container, where the constructor would put a cloud,
\* with a sky level and a gap of the ranges getRandomNum is asked for.
InitCloud ==
    /\ \E w \in 1 .. MaxContainerWidth, g \in GapRange, y \in SkyRange :
            cloud = Receiver(w, y, g)
    /\ cloudCanvas = BlankCanvas
    /\ thrown = "none"
    /\ speed = 0
    /\ updates = 0
    /\ draws = 0
    /\ BoxIdle
    /\ CollisionIdle

\* new Cloud(canvas, spritePos, w): a constructor that throws hands out no
\* object, and the receiver stays the one it was.
NewCloud(w, g, y) ==
    LET made == CloudConstructed(w, g, y, cloudCanvas)
        handedOut == made.thrown = "none"
    IN  /\ thrown' = made.thrown
        /\ cloudCanvas' = made.canvas
        /\ cloud' = IF handedOut THEN made.this ELSE cloud
        /\ updates' = IF handedOut THEN 0 ELSE updates
        /\ draws' = IF handedOut THEN 0 ELSE draws
        /\ UNCHANGED << speed, boxVars, collisionVars >>

\* cloud.init() called on the receiver; y is what getRandomNum answers
CallInit(y) ==
    LET after == init(cloud, cloudCanvas, y)
    IN  /\ cloud' = after.this
        /\ cloudCanvas' = after.canvas
        /\ thrown' = after.thrown
        /\ UNCHANGED << speed, updates, draws, boxVars, collisionVars >>

\* cloud.draw() called on the receiver
CallDraw ==
    /\ draws < MaxDraws
    /\ LET after == draw(cloud, cloudCanvas)
       IN  /\ cloud' = after.this
           /\ cloudCanvas' = after.canvas
           /\ thrown' = after.thrown
    /\ draws' = draws + 1
    /\ UNCHANGED << speed, updates, boxVars, collisionVars >>

\* cloud.update(num / SpeedDen) called on the receiver
Update(num) ==
    /\ updates < MaxUpdates
    /\ LET after == CloudAfterUpdate(cloud, cloudCanvas, num)
       IN  /\ cloud' = after.this
           /\ cloudCanvas' = after.canvas
           /\ thrown' = after.thrown
    /\ speed' = num
    /\ updates' = updates + 1
    /\ UNCHANGED << draws, boxVars, collisionVars >>

OtherCloudCalls ==
    \/ \E w \in 1 .. MaxContainerWidth, g \in GapRange, y \in SkyRange :
           NewCloud(w, g, y)
    \/ \E y \in SkyRange : CallInit(y)
    \/ CallDraw

NextCloud ==
    \/ \E num \in 0 .. MaxSpeedNum : Update(num)
    \/ OtherCloudCalls

SpecCloud == InitCloud /\ [][NextCloud]_vars

\* Every update is made with a speed > 0 and updates keep coming.
UpdatePositive == \E num \in 1 .. MaxSpeedNum : Update(num)

NextCloudPositive == UpdatePositive \/ OtherCloudCalls

SpecCloudFair ==
    InitCloud /\ [][NextCloudPositive]_vars /\ WF_vars(UpdatePositive)

-----------------------------------------------------------------------------
(* Claims about boxCompare (SpecBox) *)

\* The strict axis-aligned intersection test, as the specification states it.
StrictAABB(a, b) ==
    /\ a.x < b.x + b.width
    /\ a.x + a.width > b.x
    /\ a.y < b.y + b.height
    /\ a.y + a.height > b.y

\* C1: boxCompare is symmetric: once both orders of a pair of boxes have been
\* compared, boxCompare(a, b) and boxCompare(b, a) returned the same boolean.
C1_Symmetric ==
    (crashedAB # << >> /\ crashedBA # << >>) => crashedAB = crashedBA

\* Both orders of two different boxes were compared and both report a crash.
C1_Witness ==
    /\ boxA # boxB
    /\ crashedAB = << TRUE >>
    /\ crashedBA = << TRUE >>

\* C2: boxCompare(a, b) is true exactly when the strict AABB intersection
\* holds; so identical boxes of positive width and height overlap, and boxes
\* that are disjoint or only touch along an edge or at a corner, horizontally
\* or vertically, do not.
C2_StrictIntersection ==
    crashedAB # << >> =>
        /\ crashedAB[1] = StrictAABB(boxA, boxB)
        /\ (boxA = boxB /\ boxA.width > 0 /\ boxA.height > 0) => crashedAB[1]
        /\ (boxA.x + boxA.width <= boxB.x) => ~crashedAB[1]
        /\ (boxB.x + boxB.width <= boxA.x) => ~crashedAB[1]
        /\ (boxA.y + boxA.height <= boxB.y) => ~crashedAB[1]
        /\ (boxB.y + boxB.height <= boxA.y) => ~crashedAB[1]

\* Two boxes of positive size that share a vertical extent and touch exactly
\* along a vertical edge were compared, and no crash was reported.
C2_Witness ==
    /\ crashedAB = << FALSE >>
    /\ boxA.width > 0 /\ boxA.height > 0
    /\ boxB.width > 0 /\ boxB.height > 0
    /\ boxA.x + boxA.width = boxB.x
    /\ boxA.y = boxB.y

-----------------------------------------------------------------------------
(* Claims about checkForCollision (Spec) *)

Called == calledWith # {}

\* A sprite rectangle with 1 unit taken off each of its four sides.
Inset(x, y, w, h) ==
    [ x |-> x + 1, y |-> y + 1, width |-> w - 2, height |-> h - 2 ]

PlayerCoarse ==
    Inset(tRex.xPos, tRex.yPos, tRex.config.WIDTH, tRex.config.HEIGHT)

ObstacleFullWidth == obstacle.typeConfig.width * obstacle.size

ObstacleCoarse ==
    Inset(obstacle.xPos, obstacle.yPos, ObstacleFullWidth,
          obstacle.typeConfig.height)

CoarseOverlap == StrictAABB(PlayerCoarse, ObstacleCoarse)

\* A sub-box moved by the origin of its parent's coarse box.
Translate(b, parent) ==
    [ x |-> b.x + parent.x, y |-> b.y + parent.y,
      width |-> b.width, height |-> b.height ]

\* The player sub-boxes by the player's state alone.
PlayerSubBoxesByState ==
    IF tRex.ducking THEN tables.DUCKING ELSE tables.RUNNING

\* The player sub-boxes in force: the sprite definition's single set in the
\* alternative game mode, the set of the player's state otherwise.
PlayerSubBoxes ==
    IF altGameMode THEN tables.ALT ELSE PlayerSubBoxesByState

PlayerAt(t) == Translate(PlayerSubBoxes[t], PlayerCoarse)

ObstacleAt(i) == Translate(obstacle.collisionBoxes[i], ObstacleCoarse)

\* The index pairs (player sub-box, obstacle sub-box) whose translated boxes
\* overlap.
Hits ==
    { h \in (1 .. Len(PlayerSubBoxes)) \X (1 .. Len(obstacle.collisionBoxes)) :
        StrictAABB(PlayerAt(h[1]), ObstacleAt(h[2])) }

LexLeq(h, g) == h[1] < g[1] \/ (h[1] = g[1] /\ h[2] <= g[2])

FirstHit == CHOOSE h \in Hits : \A g \in Hits : LexLeq(h, g)

\* The player boxes a call handed to the inner boxCompare.
PlayerBoxesCompared ==
    { lastCall.compared[k][1] : k \in 1 .. Len(lastCall.compared) }

ComparedAgainst(P) ==
    /\ PlayerBoxesCompared \subseteq
           { Translate(P[t], PlayerCoarse) : t \in 1 .. Len(P) }
    /\ (CoarseOverlap /\ lastCall.ret = << >>) =>
           Len(lastCall.compared) = Len(P) * Len(obstacle.collisionBoxes)

\* A sub-box, once translated, lies inside its parent's coarse box.
Inside(b, parent) ==
    /\ parent.x <= b.x
    /\ b.x + b.width <= parent.x + parent.width
    /\ parent.y <= b.y
    /\ b.y + b.height <= parent.y + parent.height

AllContained ==
    /\ \A t \in 1 .. Len(PlayerSubBoxes) : Inside(PlayerAt(t), PlayerCoarse)
    /\ \A i \in 1 .. Len(obstacle.collisionBoxes) :
           Inside(ObstacleAt(i), ObstacleCoarse)

\* C3: fast reject: when the coarse boxes do not overlap, the call returns
\* undefined and hands no pair of sub-boxes to the inner boxCompare, whatever
\* the sub-box lists hold.
C3_FastReject ==
    (Called /\ ~CoarseOverlap) =>
        /\ lastCall.ret = << >>
        /\ lastCall.compared = << >>

\* A call was rejected by the coarse test although a translated pair of
\* sub-boxes overlaps.
C3_Witness ==
    /\ Called
    /\ ~CoarseOverlap
    /\ Hits # {}
    /\ lastCall.ret = << >>

\* C4: when the coarse boxes overlap, the call returns the translated pair
\* that is first in lexicographic order (player index outer, obstacle index
\* inner) among the overlapping pairs, width and height unchanged, and
\* undefined exactly when no translated pair overlaps.
C4_FirstOverlappingPair ==
    (Called /\ CoarseOverlap) =>
        /\ (lastCall.ret = << >>) <=> (Hits = {})
        /\ Hits # {} =>
              lastCall.ret = << PlayerAt(FirstHit[1]), ObstacleAt(FirstHit[2]) >>

\* A call returned a pair although another overlapping pair has the smaller
\* obstacle index (and the larger player index).
C4_Witness ==
    /\ Called
    /\ CoarseOverlap
    /\ lastCall.ret # << >>
    /\ \E h \in Hits, g \in Hits : h[1] < g[1] /\ h[2] > g[2]

\* C5: the coarse box built for each entity is its sprite rectangle inset by
\* 1 on each side: origin (xPos+1, yPos+1), width and height 2 less than the
\* full size (config.WIDTH x config.HEIGHT for the player, typeConfig.width *
\* size x typeConfig.height for the obstacle), so it keeps a margin of 1 on
\* the left, right, top and bottom.
C5_CoarseInset ==
    Called =>
        /\ lastCall.tRexBox = PlayerCoarse
        /\ lastCall.obstacleBox = ObstacleCoarse
        /\ lastCall.obstacleBox.x - obstacle.xPos = 1
        /\ lastCall.obstacleBox.y - obstacle.yPos = 1
        /\ (obstacle.xPos + ObstacleFullWidth)
             - (lastCall.obstacleBox.x + lastCall.obstacleBox.width) = 1
        /\ (obstacle.yPos + obstacle.typeConfig.height)
             - (lastCall.obstacleBox.y + lastCall.obstacleBox.height) = 1
        /\ lastCall.tRexBox.x - tRex.xPos = 1
        /\ lastCall.tRexBox.y - tRex.yPos = 1
        /\ (tRex.xPos + tRex.config.WIDTH)
             - (lastCall.tRexBox.x + lastCall.tRexBox.width) = 1
        /\ (tRex.yPos + tRex.config.HEIGHT)
             - (lastCall.tRexBox.y + lastCall.tRexBox.height) = 1

\* A call built the coarse box of an obstacle of size greater than 1.
C5_Witness ==
    /\ Called
    /\ obstacle.size > 1
    /\ lastCall.obstacleBox.width = ObstacleFullWidth - 2

\* C6 as stated: in every call the player boxes compared are those of the
\* set of the player's state (DUCKING when ducking, RUNNING otherwise), in
\* every game configuration.
C6_SetByStateAlone ==
    Called => ComparedAgainst(PlayerSubBoxesByState)

\* C6 as amended: the player boxes compared are those of the set of the
\* player's state when the alternative game mode is off, and those of
\* Runner.spriteDefinition.TREX.COLLISION_BOXES, whatever the player's state,
\* when it is on.
C6_SetByStateUnlessAltMode ==
    Called => ComparedAgainst(PlayerSubBoxes)

\* A ducking player was compared against an obstacle in the alternative game
\* mode.
C6_Witness ==
    /\ Called
    /\ altGameMode
    /\ tRex.ducking
    /\ lastCall.compared # << >>

\* C7: a call changes neither the obstacle, nor the player, nor the shared
\* sub-box tables, and for the same obstacle and player it returns the same
\* value with and without opt_canvasCtx.
C7_NoEffectDrawingDecoupled ==
    /\ [][ /\ obstacle' = obstacle
           /\ tRex' = tRex
           /\ tables' = tables ]_vars
    /\ [](calledWith = BOOLEAN => returned[TRUE] = returned[FALSE])

\* The call was made with and without a canvas, found a collision, and drew.
C7_Witness ==
    /\ calledWith = BOOLEAN
    /\ returned[TRUE] # << >>
    /\ lastCall.strokes # << >>

\* C9: when every translated sub-box lies inside its parent's coarse box, the
\* call returns a pair exactly when some translated pair overlaps, and an
\* overlapping translated pair implies overlapping coarse boxes.
C9_RejectHidesNothing ==
    (Called /\ AllContained) =>
        /\ (lastCall.ret # << >>) <=> (Hits # {})
        /\ Hits # {} => CoarseOverlap

\* A call on contained sub-boxes found an overlapping pair.
C9_Witness ==
    /\ Called
    /\ AllContained
    /\ Hits # {}
    /\ lastCall.ret # << >>

-----------------------------------------------------------------------------
(* Claims about Cloud (SpecCloud, SpecCloudFair) *)

\* The speed num / SpeedDen rounded up: the least integer not below it.
RoundedUp(num) ==
    CHOOSE k \in 0 .. MaxSpeedNum :
        k * SpeedDen >= num /\ (k - 1) * SpeedDen < num

\* C8: every update of a cloud not yet marked remove moves xPos left by the
\* speed rounded up and leaves yPos and gap alone; after it a cloud whose right
\* edge is left of the viewport's left edge is marked remove, and a cloud
\* whose right edge is still greater than 0 is not.
C8_ScrollAndCull ==
    [][ (updates' = updates + 1 /\ ~cloud.remove) =>
          /\ cloud'.xPos = cloud.xPos - RoundedUp(speed')
          /\ cloud'.yPos = cloud.yPos
          /\ cloud'.gap = cloud.gap
          /\ (cloud'.xPos + CloudWIDTH < 0 => cloud'.remove)
          /\ (cloud'.xPos + CloudWIDTH > 0 => ~cloud'.remove) ]_vars

\* C10: with every speed > 0, each update of a cloud not marked remove moves
\* xPos left by at least 1, so the cloud is marked remove in the end: at the
\* latest by the update that makes as many updates as the starting xPos plus
\* the cloud's width, which has carried the right edge to 0 or past it; and
\* once remove is true it stays true and updates no longer change xPos.
C10_NoStallRemovalFinal ==
    /\ [][ updates' = updates + 1 =>
             /\ ~cloud.remove => cloud'.xPos <= cloud.xPos - 1
             /\ cloud.remove => (cloud'.remove /\ cloud'.xPos = cloud.xPos)
         ]_vars
    /\ [](updates >= cloud.containerWidth + CloudWIDTH => cloud.remove)

====
